---- MODULE Spec2Model ----
(***************************************************************************)
(* Model of src/src/extension.cpp (SourceMod REST in Pawn extension): the   *)
(* host (game) thread and the libuv reactor thread, the two LockedQueues    *)
(* between them, the cURL multi handle, the load/unload sequence and the    *)
(* frame-action relay used for logging and deferred callbacks.              *)
(*                                                                         *)
(* Every action is one step of one thread.  A thread's position is its pc   *)
(* (hpc for the host thread, rpc for the reactor thread); a step that has   *)
(* to take a lock is enabled only while the lock is free, so a thread that  *)
(* sits at a lock step whose lock is held by the other thread is blocked.   *)
(***************************************************************************)
EXTENDS Naturals, Integers, Sequences, FiniteSets, TLC

\* src/src/extension.cpp:30  #define MAX_PROCESS 10
MAX_PROCESS == 10

\* Bounds of the model (not program constants).
\* Contexts the host submits in the two-thread specification Spec.
NCtx == 3
\* InitCurl() failures injected over one run.
MaxFail == 2
\* Longest pending queue the admission specification SpecBatch starts from.
MaxPending == 15
\* LogMessage / LogError / Defer calls over one run of SpecRelay.
MaxRelay == 3
\* Sockets cURL asks the reactor to watch, and CurlContext objects that can be
\* alive at the same time.
NSock == 2
MaxWatch == 3
\* Sockets cURL keeps registered at the same time while it drives the
\* transfers of one run.
MaxConn == 1

NoCtx == 0

VARIABLES
    hpc,                      \* host thread: position
    hctx,                     \* host thread: FrameHook's local `context`
    hret,                     \* host thread: where AddRequestToQueue returns to
    rpc,                      \* reactor thread (g_Thread): position
    rctx,                     \* reactor thread: local `context`
    count,                    \* reactor thread: AsyncPerformRequests' `count`
    g_RequestQueue,           \* [q: Seq(ctx), lock: "free" | "host" | "reactor"]
    g_CompletedRequestQueue,  \* same shape
    g_Curl,                   \* [state, handles: added easy handles, msgs: unread CURLMSG_DONE]
    g_Loop,                   \* [state, stop: uv_stop() flag, handles: open uv handles]
    g_AsyncPerformRequests,   \* uv_async_t: a send is pending
    g_AsyncStopLoop,          \* uv_async_t: a send is pending
    frameHook,                \* FrameHook is registered with the host
    unloaded,                 \* std::atomic<bool> unloaded
    ctx,                      \* per context, in submission order: what has happened to it
    nFail,                    \* InitCurl() failures so far
    initOrder,                \* contexts in the order InitCurl() was called
    pushOrder,                \* contexts in the order they were pushed on the completed queue
    cbOrder,                  \* contexts in the order OnCompleted() was called
    tickCb,                   \* OnCompleted() calls made by the current FrameHook call
    popped,                   \* contexts popped by the current AsyncPerformRequests run
    frameQ,                   \* the host's frame-action queue (smutils->AddFrameAction)
    relay,                    \* per relayed item: what has happened to it
    socketdata,               \* per socket: the pointer curl_multi_assign stored (0: nullptr)
    watch,                    \* per CurlContext address: the object there, or none (freed)
    lastCall                  \* the arguments of the last SocketCall step: socket, action, socketdata

vars == << hpc, hctx, hret, rpc, rctx, count, g_RequestQueue, g_CompletedRequestQueue,
           g_Curl, g_Loop, g_AsyncPerformRequests, g_AsyncStopLoop, frameHook, unloaded,
           ctx, nFail, initOrder, pushOrder, cbOrder, tickCb, popped, frameQ, relay,
           socketdata, watch, lastCall >>

hostVars    == << hpc, hctx, hret >>
reactorVars == << rpc, rctx, count >>
queueVars   == << g_RequestQueue, g_CompletedRequestQueue >>
asyncVars   == << g_AsyncPerformRequests, g_AsyncStopLoop >>
histVars    == << initOrder, pushOrder, cbOrder, tickCb, popped >>
relayVars   == << frameQ, relay >>
socketVars  == << socketdata, watch, lastCall >>

----------------------------------------------------------------------------
(* Helpers *)

Range(s) == { s[i] : i \in 1..Len(s) }

\* All orders in which the members of a finite set can be listed.
RECURSIVE Perms(_)
Perms(S) == IF S = {} THEN { << >> }
            ELSE UNION { { << x >> \o p : p \in Perms(S \ {x}) } : x \in S }

\* LockedQueue<T> (queue.h): a FIFO and a mutex.
NewQueue == [q |-> << >>, lock |-> "free"]
Lock(Q, t)   == [Q EXCEPT !.lock = t]
Unlock(Q)    == [Q EXCEPT !.lock = "free"]
Push(Q, x)   == [Q EXCEPT !.q = Append(@, x)]
Front(Q)     == Head(Q.q)
Pop(Q)       == [Q EXCEPT !.q = Tail(@)]
Empty(Q)     == Len(Q.q) = 0

\* Empty() called WITHOUT the lock (FrameHook does so twice).  It is a plain
\* read of the container; while the other thread is inside Push or Pop on the
\* same queue the read races with the write and may return either answer.
UnlockedEmpty(Q, otherThreadWriting) ==
    IF otherThreadWriting THEN BOOLEAN ELSE { Empty(Q) }

NewCtx == [init |-> "none", cb |-> 0, del |-> 0, by |-> "none"]

\* The sockets cURL may name, and no socket callback made yet: cURL holds no
\* pointer for any socket and no CurlContext exists.
Sockets == 1..NSock
Contexts == 1..MaxWatch
NoContext == [socket |-> 0, events |-> {}, state |-> "none"]
NoCall == [socket |-> 0, action |-> "none", socketdata |-> 0]
NoSocketCalls ==
    /\ socketdata = [s \in Sockets |-> 0]
    /\ watch = [w \in Contexts |-> NoContext]
    /\ lastCall = NoCall

\* The lifecycle state of section 4.7, read off the host thread's position in
\* SDK_OnLoad / SDK_OnUnload.
LoadPcs   == { "uninit", "load_uv", "load_finish", "load_failed" }
UnloadPcs == { "un_join", "un_close", "un_curl", "un_hook", "un_flag" }
Phase == IF hpc \in LoadPcs THEN "Uninitialized"
         ELSE IF hpc \in UnloadPcs THEN "Stopping"
         ELSE IF hpc = "stopped" THEN "Stopped"
         ELSE "Running"

----------------------------------------------------------------------------
(* Initial state: the globals as constructed, before SDK_OnLoad. *)

Init ==
    /\ hpc = "uninit" /\ hctx = NoCtx /\ hret = "idle"
    /\ rpc = "nothread" /\ rctx = NoCtx /\ count = 0
    /\ g_RequestQueue = NewQueue
    /\ g_CompletedRequestQueue = NewQueue
    /\ g_Curl = [state |-> "none", handles |-> {}, msgs |-> << >>]
    /\ g_Loop = [state |-> "none", stop |-> FALSE, handles |-> {}]
    /\ g_AsyncPerformRequests = FALSE
    /\ g_AsyncStopLoop = FALSE
    /\ frameHook = FALSE
    /\ unloaded = FALSE
    /\ ctx = << >>
    /\ nFail = 0
    /\ initOrder = << >> /\ pushOrder = << >> /\ cbOrder = << >>
    /\ tickCb = 0
    /\ popped = 0
    /\ frameQ = << >>
    /\ relay = << >>
    /\ NoSocketCalls

----------------------------------------------------------------------------
(* RipExt::SDK_OnLoad *)

\* curl_global_init succeeds; curl_multi_init and its two setopt calls.
OnLoad_CurlInit ==
    /\ hpc = "uninit"
    /\ hpc' = "load_uv"
    /\ g_Curl' = [g_Curl EXCEPT !.state = "live"]
    /\ UNCHANGED << hctx, hret, reactorVars, queueVars, g_Loop, asyncVars, frameHook,
                    unloaded, ctx, nFail, histVars, relayVars, socketVars >>

\* curl_global_init fails: SDK_OnLoad returns false, nothing was started.
OnLoad_CurlInitFails ==
    /\ hpc = "uninit"
    /\ hpc' = "load_failed"
    /\ UNCHANGED << hctx, hret, reactorVars, queueVars, g_Curl, g_Loop, asyncVars,
                    frameHook, unloaded, ctx, nFail, histVars, relayVars, socketVars >>

\* uv_default_loop, uv_timer_init, the two uv_async_init, uv_thread_create.
OnLoad_UvInit ==
    /\ hpc = "load_uv"
    /\ hpc' = "load_finish"
    /\ g_Loop' = [state |-> "open", stop |-> FALSE,
                  handles |-> { "g_Timeout", "g_AsyncPerformRequests", "g_AsyncStopLoop" }]
    /\ rpc' = "uv_run"
    /\ UNCHANGED << hctx, hret, rctx, count, queueVars, g_Curl, asyncVars, frameHook,
                    unloaded, ctx, nFail, histVars, relayVars, socketVars >>

\* AddGameFrameHook ... unloaded.store(false); return true.
OnLoad_Finish ==
    /\ hpc = "load_finish"
    /\ hpc' = "idle"
    /\ frameHook' = TRUE
    /\ unloaded' = FALSE
    /\ UNCHANGED << hctx, hret, reactorVars, queueVars, g_Curl, g_Loop, asyncVars,
                    ctx, nFail, histVars, relayVars, socketVars >>

----------------------------------------------------------------------------
(* RipExt::SDK_OnUnload *)

\* uv_async_send(&g_AsyncStopLoop)
OnUnload_SendStop ==
    /\ hpc = "idle"
    /\ hpc' = "un_join"
    /\ g_AsyncStopLoop' = TRUE
    /\ UNCHANGED << hctx, hret, reactorVars, queueVars, g_Curl, g_Loop,
                    g_AsyncPerformRequests, frameHook, unloaded, ctx, nFail, histVars,
                    relayVars, socketVars >>

\* uv_thread_join(&g_Thread): returns once EventLoop has returned.
OnUnload_Join ==
    /\ hpc = "un_join"
    /\ rpc = "exited"
    /\ hpc' = "un_close"
    /\ UNCHANGED << hctx, hret, reactorVars, queueVars, g_Curl, g_Loop, asyncVars,
                    frameHook, unloaded, ctx, nFail, histVars, relayVars, socketVars >>

\* uv_loop_close(loop): closes the loop only when every handle of the loop has
\* been closed, and returns UV_EBUSY, leaving the loop as it is, otherwise.
uv_loop_close(loop) ==
    IF loop.handles = {} THEN [loop EXCEPT !.state = "closed"] ELSE loop

\* uv_loop_close(g_Loop); the result is ignored.
OnUnload_LoopClose ==
    /\ hpc = "un_close"
    /\ hpc' = "un_curl"
    /\ g_Loop' = uv_loop_close(g_Loop)
    /\ UNCHANGED << hctx, hret, reactorVars, queueVars, g_Curl, asyncVars, frameHook,
                    unloaded, ctx, nFail, histVars, relayVars, socketVars >>

\* curl_multi_cleanup(arg): releases the multi handle when arg is a multi
\* handle, and returns CURLM_BAD_HANDLE, releasing nothing, otherwise.
curl_multi_cleanup(multi, arg) ==
    IF arg = "g_Curl"
    THEN [multi EXCEPT !.state = "released", !.handles = {}, !.msgs = << >>]
    ELSE multi

\* curl_multi_cleanup(&g_Curl): the argument is the address of the variable
\* g_Curl (a CURLM **), not the multi handle it holds.  curl_global_cleanup.
OnUnload_CurlCleanup ==
    /\ hpc = "un_curl"
    /\ hpc' = "un_hook"
    /\ g_Curl' = curl_multi_cleanup(g_Curl, "&g_Curl")
    /\ UNCHANGED << hctx, hret, reactorVars, queueVars, g_Loop, asyncVars, frameHook,
                    unloaded, ctx, nFail, histVars, relayVars, socketVars >>

\* handlesys->RemoveType x5; smutils->RemoveGameFrameHook(&FrameHook)
OnUnload_RemoveHook ==
    /\ hpc = "un_hook"
    /\ hpc' = "un_flag"
    /\ frameHook' = FALSE
    /\ UNCHANGED << hctx, hret, reactorVars, queueVars, g_Curl, g_Loop, asyncVars,
                    unloaded, ctx, nFail, histVars, relayVars, socketVars >>

\* event_loop.OnExtUnload(); unloaded.store(true); return.
OnUnload_StoreUnloaded ==
    /\ hpc = "un_flag"
    /\ hpc' = "stopped"
    /\ unloaded' = TRUE
    /\ UNCHANGED << hctx, hret, reactorVars, queueVars, g_Curl, g_Loop, asyncVars,
                    frameHook, ctx, nFail, histVars, relayVars, socketVars >>

----------------------------------------------------------------------------
(* RipExt::AddRequestToQueue, called on the host thread: by a native between *)
(* two ticks, or from inside a completion callback.  The context submitted   *)
(* is the one created last, ctx[Len(ctx)].                                   *)

\* A native creates a context and calls g_RipExt.AddRequestToQueue(context).
Host_Submit ==
    /\ hpc = "idle"
    /\ Len(ctx) < NCtx
    /\ ctx' = Append(ctx, NewCtx)
    /\ hret' = "idle"
    /\ hpc' = "arq_lock"
    /\ UNCHANGED << hctx, reactorVars, queueVars, g_Curl, g_Loop, asyncVars, frameHook,
                    unloaded, nFail, histVars, relayVars, socketVars >>

\* g_RequestQueue.Lock()
ARQ_Lock ==
    /\ hpc = "arq_lock"
    /\ g_RequestQueue.lock = "free"
    /\ g_RequestQueue' = Lock(g_RequestQueue, "host")
    /\ hpc' = "arq_push"
    /\ UNCHANGED << hctx, hret, reactorVars, g_CompletedRequestQueue, g_Curl, g_Loop,
                    asyncVars, frameHook, unloaded, ctx, nFail, histVars, relayVars, socketVars >>

\* g_RequestQueue.Push(context)
ARQ_Push ==
    /\ hpc = "arq_push"
    /\ g_RequestQueue' = Push(g_RequestQueue, Len(ctx))
    /\ hpc' = "arq_unlock"
    /\ UNCHANGED << hctx, hret, reactorVars, g_CompletedRequestQueue, g_Curl, g_Loop,
                    asyncVars, frameHook, unloaded, ctx, nFail, histVars, relayVars, socketVars >>

\* g_RequestQueue.Unlock(); return
ARQ_Unlock ==
    /\ hpc = "arq_unlock"
    /\ g_RequestQueue' = Unlock(g_RequestQueue)
    /\ hpc' = hret
    /\ hret' = "idle"
    /\ UNCHANGED << hctx, reactorVars, g_CompletedRequestQueue, g_Curl, g_Loop,
                    asyncVars, frameHook, unloaded, ctx, nFail, histVars, relayVars, socketVars >>

----------------------------------------------------------------------------
(* FrameHook, called by the host once per game frame while it is registered *)


\* Mutant of FH_CheckRequests: the test is inverted, the wake is sent when the
\* pending queue reads empty.
FH_CheckRequests_Inverted ==
    /\ hpc = "idle"
    /\ frameHook
    /\ \E e \in UnlockedEmpty(g_RequestQueue, rpc = "apr_loop") :
          g_AsyncPerformRequests' = (g_AsyncPerformRequests \/ e)
    /\ hpc' = "fh_comp"
    /\ tickCb' = 0
    /\ UNCHANGED << hctx, hret, reactorVars, queueVars, g_Curl, g_Loop, g_AsyncStopLoop,
                    frameHook, unloaded, ctx, nFail, initOrder, pushOrder, cbOrder,
                    popped, relayVars, socketVars >>

\* if (!g_RequestQueue.Empty()) uv_async_send(&g_AsyncPerformRequests);
\* The Empty() is unlocked: it races with the Pop of AsyncPerformRequests.
FH_CheckRequests ==
    /\ hpc = "idle"
    /\ frameHook
    /\ \E e \in UnlockedEmpty(g_RequestQueue, rpc = "apr_loop") :
          g_AsyncPerformRequests' = (g_AsyncPerformRequests \/ ~e)
    /\ hpc' = "fh_comp"
    /\ tickCb' = 0
    /\ UNCHANGED << hctx, hret, reactorVars, queueVars, g_Curl, g_Loop, g_AsyncStopLoop,
                    frameHook, unloaded, ctx, nFail, initOrder, pushOrder, cbOrder,
                    popped, relayVars, socketVars >>


\* Mutant of FH_CheckCompleted: the emptiness test is missing.
FH_CheckCompleted_NoTest ==
    /\ hpc = "fh_comp"
    /\ hpc' = "fh_lock"
    /\ UNCHANGED << hctx, hret, reactorVars, queueVars, g_Curl, g_Loop, asyncVars,
                    frameHook, unloaded, ctx, nFail, histVars, relayVars, socketVars >>

\* if (!g_CompletedRequestQueue.Empty()) { ... }
\* The Empty() is unlocked: it races with the Push of CheckCompletedRequests.
FH_CheckCompleted ==
    /\ hpc = "fh_comp"
    /\ \E e \in UnlockedEmpty(g_CompletedRequestQueue, rpc = "cc_push") :
          hpc' = IF e THEN "idle" ELSE "fh_lock"
    /\ UNCHANGED << hctx, hret, reactorVars, queueVars, g_Curl, g_Loop, asyncVars,
                    frameHook, unloaded, ctx, nFail, histVars, relayVars, socketVars >>

\* g_CompletedRequestQueue.Lock()
FH_Lock ==
    /\ hpc = "fh_lock"
    /\ g_CompletedRequestQueue.lock = "free"
    /\ g_CompletedRequestQueue' = Lock(g_CompletedRequestQueue, "host")
    /\ hpc' = "fh_pop"
    /\ UNCHANGED << hctx, hret, reactorVars, g_RequestQueue, g_Curl, g_Loop, asyncVars,
                    frameHook, unloaded, ctx, nFail, histVars, relayVars, socketVars >>


\* Mutant of FH_Pop: the front of the completed queue is read but not popped.
FH_Pop_NoPop ==
    /\ hpc = "fh_pop"
    /\ ~Empty(g_CompletedRequestQueue)
    /\ hctx' = Front(g_CompletedRequestQueue)
    /\ ctx' = [ctx EXCEPT ![Front(g_CompletedRequestQueue)].cb = @ + 1]
    /\ cbOrder' = Append(cbOrder, Front(g_CompletedRequestQueue))
    /\ tickCb' = tickCb + 1
    /\ hpc' = "OnCompleted"
    /\ UNCHANGED << hret, reactorVars, queueVars, g_Curl, g_Loop, asyncVars,
                    frameHook, unloaded, nFail, initOrder, pushOrder, popped,
                    relayVars, socketVars >>

\* IHTTPContext *context = g_CompletedRequestQueue.Pop(); context->OnCompleted()
\* is entered.  Pop on an empty queue is undefined: it hands back the pointer
\* of some context that was in the queue's storage before.
FH_Pop ==
    /\ hpc = "fh_pop"
    /\ \E c \in IF Empty(g_CompletedRequestQueue) THEN 1..Len(ctx)
                ELSE { Front(g_CompletedRequestQueue) } :
          /\ hctx' = c
          /\ ctx' = [ctx EXCEPT ![c].cb = @ + 1]
          /\ cbOrder' = Append(cbOrder, c)
    /\ g_CompletedRequestQueue' =
          IF Empty(g_CompletedRequestQueue) THEN g_CompletedRequestQueue
          ELSE Pop(g_CompletedRequestQueue)
    /\ tickCb' = tickCb + 1
    /\ hpc' = "OnCompleted"
    /\ UNCHANGED << hret, reactorVars, g_RequestQueue, g_Curl, g_Loop, asyncVars,
                    frameHook, unloaded, nFail, initOrder, pushOrder, popped,
                    relayVars, socketVars >>

\* The callback submits a follow-up request: AddRequestToQueue from OnCompleted.
FH_OnCompletedSubmits ==
    /\ hpc = "OnCompleted"
    /\ Len(ctx) < NCtx
    /\ ctx' = Append(ctx, NewCtx)
    /\ hret' = "OnCompleted"
    /\ hpc' = "arq_lock"
    /\ UNCHANGED << hctx, reactorVars, queueVars, g_Curl, g_Loop, asyncVars, frameHook,
                    unloaded, nFail, histVars, relayVars, socketVars >>

\* context->OnCompleted() returns.
FH_OnCompletedReturns ==
    /\ hpc = "OnCompleted"
    /\ hpc' = "fh_delete"
    /\ UNCHANGED << hctx, hret, reactorVars, queueVars, g_Curl, g_Loop, asyncVars,
                    frameHook, unloaded, ctx, nFail, histVars, relayVars, socketVars >>


\* Mutant of FH_Delete: the context is not deleted after its callback.
FH_Delete_Leak ==
    /\ hpc = "fh_delete"
    /\ hctx' = NoCtx
    /\ hpc' = "fh_unlock"
    /\ UNCHANGED << hret, reactorVars, queueVars, g_Curl, g_Loop, asyncVars, frameHook,
                    unloaded, ctx, nFail, histVars, relayVars, socketVars >>

\* delete context;
FH_Delete ==
    /\ hpc = "fh_delete"
    /\ ctx' = [ctx EXCEPT ![hctx].del = @ + 1, ![hctx].by = "host"]
    /\ hctx' = NoCtx
    /\ hpc' = "fh_unlock"
    /\ UNCHANGED << hret, reactorVars, queueVars, g_Curl, g_Loop, asyncVars, frameHook,
                    unloaded, nFail, histVars, relayVars, socketVars >>


\* Mutant of FH_Unlock: the `if` is a `while`, so the tick goes on draining.
FH_Unlock_DrainAll ==
    /\ hpc = "fh_unlock"
    /\ g_CompletedRequestQueue' = Unlock(g_CompletedRequestQueue)
    /\ hpc' = "fh_comp"
    /\ UNCHANGED << hctx, hret, reactorVars, g_RequestQueue, g_Curl, g_Loop, asyncVars,
                    frameHook, unloaded, ctx, nFail, histVars, relayVars, socketVars >>

\* g_CompletedRequestQueue.Unlock(); return
FH_Unlock ==
    /\ hpc = "fh_unlock"
    /\ g_CompletedRequestQueue' = Unlock(g_CompletedRequestQueue)
    /\ hpc' = "idle"
    /\ UNCHANGED << hctx, hret, reactorVars, g_RequestQueue, g_Curl, g_Loop, asyncVars,
                    frameHook, unloaded, ctx, nFail, histVars, relayVars, socketVars >>

----------------------------------------------------------------------------
(* The reactor thread: EventLoop runs uv_run(g_Loop, UV_RUN_DEFAULT), which  *)
(* calls one handler at a time.                                              *)

\* uv_run delivers g_AsyncPerformRequests: sends coalesce into one call.
Loop_AsyncPerform ==
    /\ rpc = "uv_run"
    /\ g_AsyncPerformRequests
    /\ g_AsyncPerformRequests' = FALSE
    /\ rpc' = "apr_lock"
    /\ UNCHANGED << hostVars, rctx, count, queueVars, g_Curl, g_Loop, g_AsyncStopLoop,
                    frameHook, unloaded, ctx, nFail, histVars, relayVars, socketVars >>


\* Mutant of AsyncStopLoop: the handler returns without calling uv_stop.
AsyncStopLoop_NoStop ==
    /\ rpc = "uv_run"
    /\ g_AsyncStopLoop
    /\ g_AsyncStopLoop' = FALSE
    /\ UNCHANGED << hostVars, reactorVars, queueVars, g_Curl, g_Loop,
                    g_AsyncPerformRequests, frameHook, unloaded, ctx, nFail, histVars,
                    relayVars, socketVars >>

\* uv_run delivers g_AsyncStopLoop: AsyncStopLoop calls uv_stop(g_Loop).
AsyncStopLoop ==
    /\ rpc = "uv_run"
    /\ g_AsyncStopLoop
    /\ g_AsyncStopLoop' = FALSE
    /\ g_Loop' = [g_Loop EXCEPT !.stop = TRUE]
    /\ UNCHANGED << hostVars, reactorVars, queueVars, g_Curl, g_AsyncPerformRequests,
                    frameHook, unloaded, ctx, nFail, histVars, relayVars, socketVars >>

\* uv_run returns after uv_stop, clearing the loop's stop flag as it does;
\* EventLoop returns and the thread ends.
EventLoop_Return ==
    /\ rpc = "uv_run"
    /\ g_Loop.stop
    /\ g_Loop' = [g_Loop EXCEPT !.stop = FALSE]
    /\ rpc' = "exited"
    /\ UNCHANGED << hostVars, rctx, count, queueVars, g_Curl, asyncVars,
                    frameHook, unloaded, ctx, nFail, histVars, relayVars, socketVars >>

----------------------------------------------------------------------------
(* AsyncPerformRequests *)

\* g_RequestQueue.Lock(); int count = 0;
APR_Lock ==
    /\ rpc = "apr_lock"
    /\ g_RequestQueue.lock = "free"
    /\ g_RequestQueue' = Lock(g_RequestQueue, "reactor")
    /\ count' = 0
    /\ popped' = 0
    /\ rpc' = "apr_loop"
    /\ UNCHANGED << hostVars, rctx, g_CompletedRequestQueue, g_Curl, g_Loop, asyncVars,
                    frameHook, unloaded, ctx, nFail, initOrder, pushOrder, cbOrder,
                    tickCb, relayVars, socketVars >>


\* Mutant of APR_Continue: the limiter is off by one.
APR_Continue_OffByOne == ~Empty(g_RequestQueue) /\ count <= MAX_PROCESS

\* The loop condition of AsyncPerformRequests.
APR_Continue == ~Empty(g_RequestQueue) /\ count < MAX_PROCESS


\* Mutant of APR_Pop: the pending queue is drained from the back.
APR_Pop_Back ==
    /\ rpc = "apr_loop"
    /\ APR_Continue
    /\ rctx' = g_RequestQueue.q[Len(g_RequestQueue.q)]
    /\ g_RequestQueue' = [g_RequestQueue EXCEPT !.q = SubSeq(@, 1, Len(@) - 1)]
    /\ initOrder' = Append(initOrder, g_RequestQueue.q[Len(g_RequestQueue.q)])
    /\ popped' = popped + 1
    /\ rpc' = "InitCurl"
    /\ UNCHANGED << hostVars, count, g_CompletedRequestQueue, g_Curl, g_Loop, asyncVars,
                    frameHook, unloaded, ctx, nFail, pushOrder, cbOrder, tickCb,
                    relayVars, socketVars >>

\* Mutant of APR_Pop: the head of the pending queue is read but left queued.
APR_Pop_Front ==
    /\ rpc = "apr_loop"
    /\ APR_Continue
    /\ rctx' = Front(g_RequestQueue)
    /\ initOrder' = Append(initOrder, Front(g_RequestQueue))
    /\ popped' = popped + 1
    /\ rpc' = "InitCurl"
    /\ UNCHANGED << hostVars, count, queueVars, g_Curl, g_Loop, asyncVars,
                    frameHook, unloaded, ctx, nFail, pushOrder, cbOrder, tickCb,
                    relayVars, socketVars >>

\* while (...) { context = g_RequestQueue.Pop(); context->InitCurl() is entered.
APR_Pop ==
    /\ rpc = "apr_loop"
    /\ APR_Continue
    /\ rctx' = Front(g_RequestQueue)
    /\ g_RequestQueue' = Pop(g_RequestQueue)
    /\ initOrder' = Append(initOrder, Front(g_RequestQueue))
    /\ popped' = popped + 1
    /\ rpc' = "InitCurl"
    /\ UNCHANGED << hostVars, count, g_CompletedRequestQueue, g_Curl, g_Loop, asyncVars,
                    frameHook, unloaded, ctx, nFail, pushOrder, cbOrder, tickCb,
                    relayVars, socketVars >>


\* Mutant of APR_InitCurlOk: the transfer is driven and its completion pushed
\* from inside the admission loop, with the pending queue's lock still held.
APR_InitCurlOk_PushesCompleted ==
    /\ rpc = "InitCurl"
    /\ ctx' = [ctx EXCEPT ![rctx].init = "ok"]
    /\ count' = count + 1
    /\ rpc' = "cc_lock"
    /\ UNCHANGED << hostVars, rctx, queueVars, g_Curl, g_Loop, asyncVars, frameHook,
                    unloaded, nFail, histVars, relayVars, socketVars >>

\* InitCurl() returned true: curl_multi_add_handle(g_Curl, context->curl); count++;
APR_InitCurlOk ==
    /\ rpc = "InitCurl"
    /\ ctx' = [ctx EXCEPT ![rctx].init = "ok"]
    /\ g_Curl' = [g_Curl EXCEPT !.handles = @ \cup {rctx}]
    /\ count' = count + 1
    /\ rctx' = NoCtx
    /\ rpc' = "apr_loop"
    /\ UNCHANGED << hostVars, queueVars, g_Loop, asyncVars, frameHook, unloaded, nFail,
                    histVars, relayVars, socketVars >>

\* InitCurl() returned false: the branch that deletes is taken.
APR_InitCurlFails ==
    /\ rpc = "InitCurl"
    /\ nFail < MaxFail
    /\ ctx' = [ctx EXCEPT ![rctx].init = "fail"]
    /\ nFail' = nFail + 1
    /\ rpc' = "apr_delete"
    /\ UNCHANGED << hostVars, rctx, count, queueVars, g_Curl, g_Loop, asyncVars,
                    frameHook, unloaded, histVars, relayVars, socketVars >>


\* Mutant of APR_Delete: the `continue` is missing, so the deleted context
\* falls through to curl_multi_add_handle and count++.
APR_Delete_FallThrough ==
    /\ rpc = "apr_delete"
    /\ ctx' = [ctx EXCEPT ![rctx].del = @ + 1, ![rctx].by = "reactor"]
    /\ g_Curl' = [g_Curl EXCEPT !.handles = @ \cup {rctx}]
    /\ count' = count + 1
    /\ rctx' = NoCtx
    /\ rpc' = "apr_loop"
    /\ UNCHANGED << hostVars, queueVars, g_Loop, asyncVars, frameHook,
                    unloaded, nFail, histVars, relayVars, socketVars >>


\* Mutant of APR_Delete: the failed context is counted against the limiter.
APR_Delete_Counted ==
    /\ rpc = "apr_delete"
    /\ ctx' = [ctx EXCEPT ![rctx].del = @ + 1, ![rctx].by = "reactor"]
    /\ count' = count + 1
    /\ rctx' = NoCtx
    /\ rpc' = "apr_loop"
    /\ UNCHANGED << hostVars, queueVars, g_Curl, g_Loop, asyncVars, frameHook,
                    unloaded, nFail, histVars, relayVars, socketVars >>

\* delete context; continue;
APR_Delete ==
    /\ rpc = "apr_delete"
    /\ ctx' = [ctx EXCEPT ![rctx].del = @ + 1, ![rctx].by = "reactor"]
    /\ rctx' = NoCtx
    /\ rpc' = "apr_loop"
    /\ UNCHANGED << hostVars, count, queueVars, g_Curl, g_Loop, asyncVars, frameHook,
                    unloaded, nFail, histVars, relayVars, socketVars >>

\* The loop ends: g_RequestQueue.Unlock(); return to uv_run.
APR_Unlock ==
    /\ rpc = "apr_loop"
    /\ ~APR_Continue
    /\ g_RequestQueue' = Unlock(g_RequestQueue)
    /\ count' = 0
    /\ popped' = 0
    /\ rpc' = "uv_run"
    /\ UNCHANGED << hostVars, rctx, g_CompletedRequestQueue, g_Curl, g_Loop, asyncVars,
                    frameHook, unloaded, ctx, nFail, initOrder, pushOrder, cbOrder,
                    tickCb, relayVars, socketVars >>

----------------------------------------------------------------------------
(* CurlSocketCallback (CURLMOPT_SOCKETFUNCTION): cURL calls it on the reactor *)
(* thread, from inside its multi calls, with the socket, the action it asks  *)
(* for and `socketdata`, the pointer last given to curl_multi_assign for     *)
(* that socket.                                                              *)

PollActions == { "CURL_POLL_IN", "CURL_POLL_OUT", "CURL_POLL_INOUT" }
SocketActions == PollActions \cup { "CURL_POLL_REMOVE" }

\* if (action != CURL_POLL_IN) events |= UV_WRITABLE;
\* if (action != CURL_POLL_OUT) events |= UV_READABLE;
Events(action) ==
    (IF action # "CURL_POLL_IN" THEN { "UV_WRITABLE" } ELSE {})
        \cup (IF action # "CURL_POLL_OUT" THEN { "UV_READABLE" } ELSE {})

\* The socket state CurlSocketCallback works on.
SocketState == [socketdata |-> socketdata, watch |-> watch]

\* Addresses at which no CurlContext is alive.
FreeContexts(S) == { w \in Contexts : S.watch[w] = NoContext }

\* new CurlContext(socket): the object, and the address the allocator gives it
\* (the lowest free one).
NewCurlContext(socket) == [socket |-> socket, events |-> {}, state |-> "new"]
NewAddress(S) == CHOOSE w \in FreeContexts(S) : \A v \in FreeContexts(S) : w <= v

\* context->Destroy(): polling stops and the object is freed.
Destroy(S, context) == [S.watch EXCEPT ![context] = NoContext]

\* Mutant of CurlSocketCallback: `socketdata` is ignored and a CurlContext is
\* created on every register-or-update request.
CurlSocketCallback_AlwaysNew(S, socket, action) ==
    LET context == S.socketdata[socket]
    IN  IF action \in PollActions
        THEN [socketdata |-> [S.socketdata EXCEPT ![socket] = NewAddress(S)],
              watch |-> [S.watch EXCEPT ![NewAddress(S)] =
                            [NewCurlContext(socket) EXCEPT
                                !.events = Events(action), !.state = "polling"]]]
        ELSE IF context # 0
             THEN [socketdata |-> [S.socketdata EXCEPT ![socket] = 0],
                   watch |-> Destroy(S, context)]
             ELSE S

\* switch (action): for CURL_POLL_IN / OUT / INOUT the context is `socketdata`
\* or, when that is null, a new CurlContext; curl_multi_assign stores it and
\* uv_poll_start (re)starts the poll with the events asked for.  For
\* CURL_POLL_REMOVE with a non-null `socketdata`, context->Destroy() and
\* curl_multi_assign(g_Curl, socket, nullptr); with a null one, nothing.
\* The result is the socket state the call leaves.
CurlSocketCallback(S, socket, action) ==
    LET context == S.socketdata[socket]
    IN  IF action \in PollActions
        THEN IF context # 0
             THEN [socketdata |-> S.socketdata,
                   watch |-> [S.watch EXCEPT ![context].events = Events(action),
                                             ![context].state =
                                                 IF @ = "none"
                                                 THEN "used after Destroy"
                                                 ELSE "polling"]]
             ELSE [socketdata |-> [S.socketdata EXCEPT ![socket] = NewAddress(S)],
                   watch |-> [S.watch EXCEPT ![NewAddress(S)] =
                                 [NewCurlContext(socket) EXCEPT
                                     !.events = Events(action), !.state = "polling"]]]
        ELSE IF context # 0
             THEN [socketdata |-> [S.socketdata EXCEPT ![socket] = 0],
                   watch |-> Destroy(S, context)]
             ELSE S

\* One call of CurlSocketCallback on its own, with any socket and any action;
\* lastCall notes the arguments of the call.  A register-or-update request
\* comes only while an address is free for a CurlContext.
SocketCall(socket, action) ==
    /\ g_Curl.state = "live"
    /\ rpc = "uv_run"
    /\ action \in PollActions => FreeContexts(SocketState) # {}
    /\ LET S == CurlSocketCallback(SocketState, socket, action)
       IN  /\ socketdata' = S.socketdata
           /\ watch' = S.watch
    /\ lastCall' = [socket |-> socket, action |-> action, socketdata |-> socketdata[socket]]
    /\ UNCHANGED << hostVars, reactorVars, queueVars, g_Curl, g_Loop, asyncVars,
                    frameHook, unloaded, ctx, nFail, histVars, relayVars >>

\* The sockets cURL has registered and not removed.
Registered(S) == { s \in Sockets : S.socketdata[s] # 0 }

\* The calls of CurlSocketCallback cURL may make next from inside one
\* curl_multi_socket_action, `socks` being the sockets it has made no call for
\* yet: at most one call for each socket, a remove only for a socket it has
\* registered, and a register for a socket it has not registered only while
\* it has fewer than MaxConn registered (and an address is free for the
\* CurlContext).
CurlCalls(S, socks) ==
    { d \in [socket : socks, action : SocketActions] :
        /\ d.action = "CURL_POLL_REMOVE" => S.socketdata[d.socket] # 0
        /\ (d.action \in PollActions /\ S.socketdata[d.socket] = 0)
              => /\ FreeContexts(S) # {}
                 /\ Cardinality(Registered(S)) < MaxConn }

\* The socket states one curl_multi_socket_action can leave, by the calls of
\* CurlSocketCallback cURL makes from inside it, one after the other.
RECURSIVE SocketStatesAfter(_, _)
SocketStatesAfter(S, socks) ==
    { S } \cup
    UNION { SocketStatesAfter(CurlSocketCallback(S, d.socket, d.action),
                              socks \ { d.socket }) : d \in CurlCalls(S, socks) }

----------------------------------------------------------------------------
(* PerformRequests (timer) and CurlSocketActivity (socket readiness), both   *)
(* followed by CheckCompletedRequests                                        *)

\* Transfers in the multi handle that have not finished yet.
InFlight == g_Curl.handles \ Range(g_Curl.msgs)

\* curl_multi_socket_action: cURL drives the transfers.  From inside the call
\* it calls CurlSocketCallback for the sockets whose watching it wants
\* changed; any of the transfers in flight finish, and cURL queues one
\* CURLMSG_DONE message for each, in some order.  cURL has a socket watched
\* only for a transfer in flight: when the last one finishes, it has asked
\* for every socket to be removed by the time the call returns.
curl_multi_socket_action(next) ==
    /\ rpc = "uv_run"
    /\ InFlight # {}
    /\ \E S \in SocketStatesAfter(SocketState, Sockets) :
          /\ socketdata' = S.socketdata
          /\ watch' = S.watch
          /\ \E D \in SUBSET InFlight : \E p \in Perms(D) :
                /\ D = InFlight => S.socketdata = [s \in Sockets |-> 0]
                /\ g_Curl' = [g_Curl EXCEPT !.msgs = @ \o p]
    /\ rpc' = next
    /\ UNCHANGED << hostVars, rctx, count, queueVars, g_Loop, asyncVars, frameHook,
                    unloaded, ctx, nFail, histVars, relayVars, lastCall >>

\* uv_run delivers the timer g_Timeout: curl_multi_socket_action for
\* CURL_SOCKET_TIMEOUT.
PerformRequests == curl_multi_socket_action("cc_read")

\* uv_run delivers the readiness of a socket being polled: the poll handle's
\* data is its CurlContext, and curl_multi_socket_action is called for
\* context->socket.
CurlSocketActivity ==
    /\ \E context \in Contexts : watch[context].state = "polling"
    /\ curl_multi_socket_action("cc_read")


\* Mutant of CC_Read: curl_multi_remove_handle is missing, so the finished
\* transfer stays in the multi handle.
CC_Read_NoRemove ==
    /\ rpc = "cc_read"
    /\ IF g_Curl.msgs = << >>
       THEN /\ rpc' = "uv_run"
            /\ UNCHANGED << rctx, g_Curl >>
       ELSE /\ rctx' = Head(g_Curl.msgs)
            /\ g_Curl' = [g_Curl EXCEPT !.msgs = Tail(@)]
            /\ rpc' = "cc_lock"
    /\ UNCHANGED << hostVars, count, queueVars, g_Loop, asyncVars, frameHook, unloaded,
                    ctx, nFail, histVars, relayVars, socketVars >>

\* while ((message = curl_multi_info_read(...))): with a message left,
\* curl_multi_remove_handle and curl_easy_getinfo(CURLINFO_PRIVATE, &context);
\* with none, CheckCompletedRequests and the handler return.
CC_Read ==
    /\ rpc = "cc_read"
    /\ IF g_Curl.msgs = << >>
       THEN /\ rpc' = "uv_run"
            /\ UNCHANGED << rctx, g_Curl >>
       ELSE /\ rctx' = Head(g_Curl.msgs)
            /\ g_Curl' = [g_Curl EXCEPT !.msgs = Tail(@), !.handles = @ \ {Head(g_Curl.msgs)}]
            /\ rpc' = "cc_lock"
    /\ UNCHANGED << hostVars, count, queueVars, g_Loop, asyncVars, frameHook, unloaded,
                    ctx, nFail, histVars, relayVars, socketVars >>

\* g_CompletedRequestQueue.Lock()
CC_Lock ==
    /\ rpc = "cc_lock"
    /\ g_CompletedRequestQueue.lock = "free"
    /\ g_CompletedRequestQueue' = Lock(g_CompletedRequestQueue, "reactor")
    /\ rpc' = "cc_push"
    /\ UNCHANGED << hostVars, rctx, count, g_RequestQueue, g_Curl, g_Loop, asyncVars,
                    frameHook, unloaded, ctx, nFail, histVars, relayVars, socketVars >>

\* g_CompletedRequestQueue.Push(context)
CC_Push ==
    /\ rpc = "cc_push"
    /\ g_CompletedRequestQueue' = Push(g_CompletedRequestQueue, rctx)
    /\ pushOrder' = Append(pushOrder, rctx)
    /\ rctx' = NoCtx
    /\ rpc' = "cc_unlock"
    /\ UNCHANGED << hostVars, count, g_RequestQueue, g_Curl, g_Loop, asyncVars,
                    frameHook, unloaded, ctx, nFail, initOrder, cbOrder, tickCb, popped,
                    relayVars, socketVars >>


\* Mutant of CC_Unlock: the `while` is an `if`, so CheckCompletedRequests
\* returns after the first finished transfer.
CC_Unlock_Return ==
    /\ rpc = "cc_unlock"
    /\ g_CompletedRequestQueue' = Unlock(g_CompletedRequestQueue)
    /\ rpc' = "uv_run"
    /\ UNCHANGED << hostVars, rctx, count, g_RequestQueue, g_Curl, g_Loop, asyncVars,
                    frameHook, unloaded, ctx, nFail, histVars, relayVars, socketVars >>

\* g_CompletedRequestQueue.Unlock(); next iteration of the while
CC_Unlock ==
    /\ rpc = "cc_unlock"
    /\ g_CompletedRequestQueue' = Unlock(g_CompletedRequestQueue)
    /\ rpc' = "cc_read"
    /\ UNCHANGED << hostVars, rctx, count, g_RequestQueue, g_Curl, g_Loop, asyncVars,
                    frameHook, unloaded, ctx, nFail, histVars, relayVars, socketVars >>

----------------------------------------------------------------------------
(* The relay to the host thread: RipExt::LogMessage, RipExt::LogError and    *)
(* RipExt::Defer queue a frame action; the host runs the queued actions      *)
(* (log_msg, log_err, execute_cb) one by one on its own thread.              *)

NewRelay(kind) == [kind |-> kind, called |-> Phase, state |-> "queued",
                   relayed |-> "none", delivered |-> FALSE, released |-> 0]

\* smutils->AddFrameAction(fn, data) from code running on the reactor thread.
AddFrameAction(fn) ==
    /\ rpc = "uv_run"
    /\ Len(relay) < MaxRelay
    /\ relay' = Append(relay, NewRelay(fn))
    /\ frameQ' = Append(frameQ, Len(relay) + 1)
    /\ UNCHANGED << hostVars, reactorVars, queueVars, g_Curl, g_Loop, asyncVars,
                    frameHook, unloaded, ctx, nFail, histVars, socketVars >>

\* malloc, vsnprintf, AddFrameAction(&log_msg, buffer)
LogMessage == AddFrameAction("log_msg")

\* malloc, vsnprintf, AddFrameAction(&log_err, buffer)
LogError == AddFrameAction("log_err")

\* make_unique<function>, AddFrameAction(&execute_cb, cb.release())
Defer == AddFrameAction("execute_cb")

\* The host is between two frames: before, or after, the extension's unload.
HostBetweenFrames == hpc \in { "idle", "stopped" }

\* The host runs the frame action at the head of its queue with the function fn.
RunFrameAction(fn, deliver) ==
    /\ HostBetweenFrames
    /\ frameQ # << >>
    /\ relay[Head(frameQ)].kind = fn
    /\ relay' = [relay EXCEPT ![Head(frameQ)] =
                    [@ EXCEPT !.state = "done", !.relayed = Phase,
                              !.delivered = deliver, !.released = @ + 1]]
    /\ frameQ' = Tail(frameQ)
    /\ UNCHANGED << hostVars, reactorVars, queueVars, g_Curl, g_Loop, asyncVars,
                    frameHook, unloaded, ctx, nFail, histVars, socketVars >>


\* Mutant of log_msg: the message is delivered without looking at `unloaded`.
log_msg_NoCheck == RunFrameAction("log_msg", TRUE)

\* if (!unloaded.load()) smutils->LogMessage(...); free(msg);
log_msg == RunFrameAction("log_msg", ~unloaded)

\* if (!unloaded.load()) smutils->LogError(...); free(msg);
log_err == RunFrameAction("log_err", ~unloaded)

\* unique_ptr takes the callback, callback->operator()(), unique_ptr frees it.
execute_cb == RunFrameAction("execute_cb", TRUE)

----------------------------------------------------------------------------
(* Specifications *)

Lifecycle ==
    \/ OnLoad_CurlInit \/ OnLoad_CurlInitFails \/ OnLoad_UvInit \/ OnLoad_Finish
    \/ OnUnload_SendStop \/ OnUnload_Join \/ OnUnload_LoopClose
    \/ OnUnload_CurlCleanup \/ OnUnload_RemoveHook \/ OnUnload_StoreUnloaded
    \/ AsyncStopLoop \/ EventLoop_Return

HostSteps ==
    \/ Host_Submit \/ ARQ_Lock \/ ARQ_Push \/ ARQ_Unlock
    \/ FH_CheckRequests \/ FH_CheckCompleted \/ FH_Lock \/ FH_Pop
    \/ FH_OnCompletedSubmits \/ FH_OnCompletedReturns \/ FH_Delete \/ FH_Unlock

Admission ==
    \/ Loop_AsyncPerform \/ APR_Lock \/ APR_Pop \/ APR_InitCurlOk
    \/ APR_InitCurlFails \/ APR_Delete \/ APR_Unlock

Completion ==
    \/ PerformRequests \/ CurlSocketActivity
    \/ CC_Read \/ CC_Lock \/ CC_Push \/ CC_Unlock

\* The two threads from load to unload.
Next == Lifecycle \/ HostSteps \/ Admission \/ Completion

Spec == Init /\ [][Next]_vars

\* Admission alone: the engine is running, the host has submitted n contexts
\* that nobody has woken the reactor for yet, and no transfer finishes.
InitBatch ==
    \E n \in 0..MaxPending :
        /\ hpc = "idle" /\ hctx = NoCtx /\ hret = "idle"
        /\ rpc = "uv_run" /\ rctx = NoCtx /\ count = 0
        /\ g_RequestQueue = [q |-> [i \in 1..n |-> i], lock |-> "free"]
        /\ g_CompletedRequestQueue = NewQueue
        /\ g_Curl = [state |-> "live", handles |-> {}, msgs |-> << >>]
        /\ g_Loop = [state |-> "open", stop |-> FALSE,
                     handles |-> { "g_Timeout", "g_AsyncPerformRequests", "g_AsyncStopLoop" }]
        /\ g_AsyncPerformRequests = FALSE
        /\ g_AsyncStopLoop = FALSE
        /\ frameHook = TRUE
        /\ unloaded = FALSE
        /\ ctx = [i \in 1..n |-> NewCtx]
        /\ nFail = 0
        /\ initOrder = << >> /\ pushOrder = << >> /\ cbOrder = << >>
        /\ tickCb = 0
        /\ popped = 0
        /\ frameQ = << >>
        /\ relay = << >>
        /\ NoSocketCalls

NextBatch == FH_CheckRequests \/ FH_CheckCompleted \/ Admission

SpecBatch == InitBatch /\ [][NextBatch]_vars

\* The relay and the lifecycle: no transfers.
Relay == LogMessage \/ LogError \/ Defer \/ log_msg \/ log_err \/ execute_cb

NextRelay == Lifecycle \/ Relay

SpecRelay == Init /\ [][NextRelay]_vars

\* The socket callback alone: the engine is running, the reactor is in uv_run,
\* and cURL asks for sockets to be watched, updated and removed in any order.
InitSocket ==
    /\ hpc = "idle" /\ hctx = NoCtx /\ hret = "idle"
    /\ rpc = "uv_run" /\ rctx = NoCtx /\ count = 0
    /\ g_RequestQueue = NewQueue
    /\ g_CompletedRequestQueue = NewQueue
    /\ g_Curl = [state |-> "live", handles |-> {}, msgs |-> << >>]
    /\ g_Loop = [state |-> "open", stop |-> FALSE,
                 handles |-> { "g_Timeout", "g_AsyncPerformRequests", "g_AsyncStopLoop" }]
    /\ g_AsyncPerformRequests = FALSE
    /\ g_AsyncStopLoop = FALSE
    /\ frameHook = TRUE
    /\ unloaded = FALSE
    /\ ctx = << >>
    /\ nFail = 0
    /\ initOrder = << >> /\ pushOrder = << >> /\ cbOrder = << >>
    /\ tickCb = 0
    /\ popped = 0
    /\ frameQ = << >>
    /\ relay = << >>
    /\ NoSocketCalls

NextSocket == \E socket \in Sockets : \E action \in SocketActions : SocketCall(socket, action)

SpecSocket == InitSocket /\ [][NextSocket]_vars

\* The two threads under the scheduling the program runs with: the host calls
\* FrameHook every game frame and runs what it called to its end, and the
\* operating system keeps scheduling the reactor thread.
HostRuns == ARQ_Lock \/ ARQ_Push \/ ARQ_Unlock
            \/ FH_CheckRequests \/ FH_CheckCompleted \/ FH_Lock \/ FH_Pop
            \/ FH_OnCompletedReturns \/ FH_Delete \/ FH_Unlock

ReactorRuns == Admission \/ Completion \/ AsyncStopLoop \/ EventLoop_Return

SpecLive == Init /\ [][Next]_vars /\ WF_vars(HostRuns) /\ WF_vars(ReactorRuns)

\* SDK_OnUnload, once called, runs to its end on the host thread.
UnloadRuns ==
    \/ OnUnload_Join \/ OnUnload_LoopClose \/ OnUnload_CurlCleanup
    \/ OnUnload_RemoveHook \/ OnUnload_StoreUnloaded

\* The scheduling of SpecLive together with what uv_run guarantees of the two
\* uv_async_t handles: every iteration of the loop calls the handler of each
\* handle that has a send pending, so a handler is not passed over for ever by
\* timer and socket handlers, and uv_run returns at the end of the iteration in
\* which uv_stop was called.
SpecStop ==
    /\ Init /\ [][Next]_vars
    /\ WF_vars(HostRuns) /\ WF_vars(UnloadRuns) /\ WF_vars(ReactorRuns)
    /\ SF_vars(Loop_AsyncPerform) /\ SF_vars(AsyncStopLoop) /\ SF_vars(EventLoop_Return)

----------------------------------------------------------------------------
(* Properties *)

Ctxs == 1..Len(ctx)

\* The host thread is inside context c's OnCompleted(): in the callback's own
\* code, or in the AddRequestToQueue it called.
InOnCompleted(c) ==
    /\ hctx = c
    /\ \/ hpc = "OnCompleted"
       \/ hpc \in { "arq_lock", "arq_push", "arq_unlock" } /\ hret = "OnCompleted"

\* The reactor thread is inside context c's InitCurl().
InInitCurl(c) == rpc = "InitCurl" /\ rctx = c

\* A thread is about to run `delete context` on c.
InDelete(c) ==
    \/ rpc = "apr_delete" /\ rctx = c
    \/ hpc = "fh_delete" /\ hctx = c

\* The places of the reactor's side that hold context c.
HeldByReactor(c) ==
    \/ c \in Range(g_RequestQueue.q)
    \/ rctx = c
    \/ c \in g_Curl.handles
    \/ c \in Range(g_Curl.msgs)

\* The host has popped c from the completed queue.
PoppedByHost(c) == c \in Range(pushOrder) /\ c \notin Range(g_CompletedRequestQueue.q)

\* C1: a context that reached the active set has OnCompleted() invoked at most
\* once, and OnCompleted() on a context never overlaps with its InitCurl() on
\* the reactor thread nor with its destruction.
C1_AtMostOneCompletion ==
    /\ \A c \in Ctxs : ctx[c].init = "ok" => ctx[c].cb <= 1
    /\ \A c \in Ctxs : InOnCompleted(c) =>
          /\ ~InInitCurl(c)
          /\ ~InDelete(c)
          /\ ctx[c].del = 0

\* C1's case: a context that was admitted has had its callback and was deleted
\* while another context is being initialised on the reactor thread.
C1_Witness ==
    \E c \in Ctxs : \E d \in Ctxs :
        /\ ctx[c].init = "ok" /\ ctx[c].cb = 1 /\ ctx[c].del = 1
        /\ InInitCurl(d)

\* C2 as claimed: every submitted context whose InitCurl() did not fail has
\* had OnCompleted() exactly once by the time the engine is stopped.
C2_AsClaimed ==
    Phase = "Stopped" => \A c \in Ctxs : ctx[c].init # "fail" => ctx[c].cb = 1

\* C2 amended: a submitted context whose InitCurl() did not fail has
\* OnCompleted() run exactly once if the host has popped it from the completed
\* queue and not at all otherwise (so never when it is still pending, active or
\* queued as completed at unload); while OnCompleted() runs the reactor side
\* holds no reference to the context and the host holds the completed queue's
\* lock.
C2_Amended ==
    \A c \in Ctxs : ctx[c].init # "fail" =>
        /\ ctx[c].cb = (IF PoppedByHost(c) THEN 1 ELSE 0)
        /\ InOnCompleted(c) =>
              /\ ~HeldByReactor(c)
              /\ g_CompletedRequestQueue.lock = "host"
        /\ (Phase \in { "Stopping", "Stopped" } /\ ~PoppedByHost(c)) => ctx[c].cb = 0

\* C2's case: the engine is stopped, one context has had its callback and
\* another, admitted as well, never will.
C2_Witness ==
    /\ Phase = "Stopped"
    /\ \E c \in Ctxs : \E d \in Ctxs :
          /\ ctx[c].init = "ok" /\ ctx[c].cb = 1
          /\ ctx[d].init = "ok" /\ ctx[d].cb = 0

\* The step that ends a run of AsyncPerformRequests, and the step that deletes.
APR_ExitStep   == rpc = "apr_loop" /\ rpc' = "uv_run"
APR_DeleteStep == rpc = "apr_delete" /\ rpc' # "apr_delete"

\* C3: a context whose InitCurl() failed is deleted at once by the reactor
\* thread, never enters the multi handle, is never pushed on the completed
\* queue and never has OnCompleted() called; after the delete the run is back
\* at the head of its loop with the lock still held, and a run ends only with
\* the pending queue empty or the cap reached.
C3_InitFailureDropped ==
    /\ [](\A c \in Ctxs : ctx[c].init = "fail" =>
             /\ c \notin g_Curl.handles
             /\ c \notin Range(g_Curl.msgs)
             /\ c \notin Range(pushOrder)
             /\ c \notin Range(g_CompletedRequestQueue.q)
             /\ ctx[c].cb = 0
             /\ \/ ctx[c].del = 1 /\ ctx[c].by = "reactor" /\ rctx # c
                \/ ctx[c].del = 0 /\ rpc = "apr_delete" /\ rctx = c)
    /\ [][APR_DeleteStep =>
             /\ rpc' = "apr_loop"
             /\ g_RequestQueue' = g_RequestQueue
             /\ g_RequestQueue.lock = "reactor"
             /\ count' = count]_vars
    /\ [][APR_ExitStep => (Empty(g_RequestQueue) \/ count = MAX_PROCESS)]_vars

\* C3's case: in one run a context failed InitCurl() and was deleted, and the
\* next context of the queue is now being initialised.
C3_Witness ==
    /\ rpc = "InitCurl"
    /\ popped >= 2
    /\ ctx[initOrder[Len(initOrder) - 1]].init = "fail"
    /\ ctx[initOrder[Len(initOrder) - 1]].del = 1

DestroyedAfterAdmissionFailure(c) ==
    ctx[c].del = 1 /\ ctx[c].by = "reactor" /\ ctx[c].init = "fail" /\ ctx[c].cb = 0

DestroyedAfterCallback(c) ==
    ctx[c].del = 1 /\ ctx[c].by = "host" /\ ctx[c].init = "ok" /\ ctx[c].cb = 1

AbandonedAtShutdown(c) ==
    ctx[c].del = 0 /\ ctx[c].cb = 0 /\ Phase = "Stopped"

\* Some thread or container still holds a pointer to context c.
Referenced(c) ==
    HeldByReactor(c) \/ c \in Range(g_CompletedRequestQueue.q) \/ hctx = c

Truth(b) == IF b THEN 1 ELSE 0

\* C4: no context is deleted twice; a deleted context was deleted either by the
\* reactor after its InitCurl() failed or by the host after its callback, and
\* no queue, handle or thread refers to it any more; once the engine is
\* stopped every context is in exactly one of the three final outcomes.
C4_OneFinalOutcome ==
    \A c \in Ctxs :
        /\ ctx[c].del <= 1
        /\ ctx[c].del = 1 =>
              /\ DestroyedAfterAdmissionFailure(c) \/ DestroyedAfterCallback(c)
              /\ ~Referenced(c)
        /\ Phase = "Stopped" =>
              Truth(DestroyedAfterAdmissionFailure(c)) + Truth(DestroyedAfterCallback(c))
                  + Truth(AbandonedAtShutdown(c)) = 1

\* C4's case: the engine is stopped with one context of each final outcome.
C4_Witness ==
    /\ Phase = "Stopped"
    /\ \E a \in Ctxs : DestroyedAfterAdmissionFailure(a)
    /\ \E b \in Ctxs : DestroyedAfterCallback(b)
    /\ \E c \in Ctxs : AbandonedAtShutdown(c)

\* Contexts are numbered in the order they are submitted, so a sequence of
\* contexts is in submission order when it is 1, 2, 3, ... or a stretch of it.
Consecutive(s) == \A i \in 1..Len(s) : s[i] = s[1] + (i - 1)

\* C5: InitCurl() is attempted in submission order, within one run of
\* AsyncPerformRequests and across runs: the k-th InitCurl() is on the k-th
\* context submitted, and the pending queue holds the contexts that follow, in
\* order.  A run that the cap of MAX_PROCESS ends leaves the tail of the queue
\* as it was, and the next run goes on with its head.
C5_FifoAdmission ==
    /\ [](/\ \A i \in 1..Len(initOrder) : initOrder[i] = i
          /\ Consecutive(g_RequestQueue.q)
          /\ g_RequestQueue.q # << >> => Head(g_RequestQueue.q) = Len(initOrder) + 1)
    /\ [][(APR_ExitStep /\ count = MAX_PROCESS) =>
             /\ g_RequestQueue'.q = g_RequestQueue.q
             /\ initOrder' = initOrder]_vars

\* C5's case: the cap ended the first run with contexts still queued, and a
\* later run is initialising the first context of that tail, with the rest of
\* the tail still queued in order.
C5_Witness ==
    /\ rpc = "InitCurl"
    /\ popped = 1
    /\ Len(initOrder) > MAX_PROCESS
    /\ rctx = Len(initOrder)
    /\ Cardinality(g_Curl.handles) = MAX_PROCESS
    /\ g_RequestQueue.q = [i \in 1..(Len(ctx) - Len(initOrder)) |-> Len(initOrder) + i]
    /\ Len(g_RequestQueue.q) >= 2

Min(a, b) == IF a < b THEN a ELSE b

\* The reactor is between two runs of AsyncPerformRequests.
APR_AtRest == rpc \in { "uv_run", "apr_lock" }

\* C6: one run of AsyncPerformRequests adds at most MAX_PROCESS contexts to the
\* multi handle.  With n contexts queued and no InitCurl() failing, a run adds
\* min(MAX_PROCESS, length of the queue) contexts, so between runs the contexts
\* admitted are the first 0, min(n, MAX_PROCESS) or min(n, 2 * MAX_PROCESS) and
\* the others are still queued in order: 10 after the first run and all 15
\* after the second for n = 15.
C6_BoundedBatch ==
    /\ [](count <= MAX_PROCESS)
    /\ []((nFail = 0 /\ APR_AtRest) =>
             LET n == Len(ctx)
                 k == Cardinality(g_Curl.handles)
             IN  /\ g_Curl.handles = 1..k
                 /\ g_RequestQueue.q = [i \in 1..(n - k) |-> k + i]
                 /\ k \in { 0, Min(n, MAX_PROCESS), Min(n, 2 * MAX_PROCESS) })
    /\ [][(APR_ExitStep /\ nFail = 0) =>
             /\ count = popped
             /\ count = Min(MAX_PROCESS, popped + Len(g_RequestQueue.q))]_vars

\* C6's case: 15 contexts were queued, none failed, and the first run has
\* ended with the first 10 admitted and the other 5 still queued in order.
C6_Witness ==
    /\ Len(ctx) = MAX_PROCESS + 5
    /\ nFail = 0
    /\ rpc = "uv_run"
    /\ g_Curl.handles = 1..MAX_PROCESS
    /\ g_RequestQueue.q = [i \in 1..5 |-> MAX_PROCESS + i]

IsPrefix(s, t) == Len(s) <= Len(t) /\ \A i \in 1..Len(s) : s[i] = t[i]

\* Context c's OnCompleted() has been called.
Called(c) == c \in Ctxs /\ ctx[c].cb >= 1

\* C7: one FrameHook call invokes at most one OnCompleted(), the callbacks are
\* invoked in the order the reactor pushed the contexts, and as long as the
\* host keeps ticking every context in the completed queue gets its callback.
C7_TickBoundedDrain ==
    /\ [](tickCb <= 1 /\ IsPrefix(cbOrder, pushOrder))
    /\ \A c \in 1..NCtx :
          (c \in Range(g_CompletedRequestQueue.q)) ~> (Called(c) \/ Phase # "Running")

\* C7's case: a tick has made its one callback and is about to return while
\* two more entries wait in the completed queue.
C7_Witness ==
    /\ hpc = "fh_unlock"
    /\ tickCb = 1
    /\ Len(g_CompletedRequestQueue.q) = 2

RelayIds == 1..Len(relay)
IsLog(m) == relay[m].kind \in { "log_msg", "log_err" }

\* C8 as claimed: once SDK_OnUnload has returned the reactor thread has exited
\* and no frame action run from then on delivers anything: no log message
\* reaches the host's log and no deferred callback runs.
C8_AsClaimed ==
    /\ Phase = "Stopped" => rpc = "exited"
    /\ \A m \in RelayIds : relay[m].relayed = "Stopped" => ~relay[m].delivered

\* C9 as claimed: a message logged before SDK_OnUnload began is delivered, one
\* logged after it began is dropped, and both are freed once at relay time.
C9_AsClaimed ==
    \A m \in RelayIds : (IsLog(m) /\ relay[m].state = "done") =>
        /\ relay[m].called # "Stopping" => relay[m].delivered
        /\ relay[m].called = "Stopping" => ~relay[m].delivered
        /\ relay[m].released = 1

\* C9 amended: a relayed log message is delivered exactly when the host runs
\* its frame action before SDK_OnUnload has set `unloaded`, so a message logged
\* before SDK_OnUnload began is delivered only if it is relayed before the
\* unload, and one logged after it began is always dropped; the message is
\* freed exactly once when it is relayed and not before.
C9_Amended ==
    \A m \in RelayIds : IsLog(m) =>
        /\ relay[m].state = "queued" =>
              /\ relay[m].released = 0
              /\ ~relay[m].delivered
              /\ m \in Range(frameQ)
        /\ relay[m].state = "done" =>
              /\ relay[m].released = 1
              /\ relay[m].delivered <=> relay[m].relayed # "Stopped"
              /\ relay[m].called = "Stopping" => ~relay[m].delivered
              /\ m \notin Range(frameQ)

\* C9's case: of two messages logged before SDK_OnUnload began one was
\* delivered and one was dropped, and a third, logged after it began, was
\* dropped.
C9_Witness ==
    \E a \in RelayIds : \E b \in RelayIds : \E c \in RelayIds :
        /\ IsLog(a) /\ IsLog(b) /\ IsLog(c)
        /\ relay[a].state = "done" /\ relay[b].state = "done" /\ relay[c].state = "done"
        /\ relay[a].called = "Running" /\ relay[a].delivered
        /\ relay[b].called = "Running" /\ ~relay[b].delivered
        /\ relay[c].called = "Stopping" /\ ~relay[c].delivered

AfterJoin == { "un_close", "un_curl", "un_hook", "un_flag", "stopped" }

\* C10 as claimed: `unloaded` is true in the Stopped state only, the reactor
\* thread has exited once the join is past, and by the time `unloaded` is set
\* the steps before it have taken effect: the event loop is closed and the
\* transfer manager is released.
C10_AsClaimed ==
    /\ unloaded <=> Phase = "Stopped"
    /\ hpc \in AfterJoin => rpc = "exited"
    /\ unloaded => g_Loop.state = "closed" /\ g_Curl.state = "released"

\* The host thread stands at a Lock() whose mutex the reactor thread holds.
HostWaits ==
    \/ hpc = "arq_lock" /\ g_RequestQueue.lock = "reactor"
    \/ hpc = "fh_lock" /\ g_CompletedRequestQueue.lock = "reactor"

\* The reactor thread stands at a Lock() whose mutex the host thread holds.
ReactorWaits ==
    \/ rpc = "apr_lock" /\ g_RequestQueue.lock = "host"
    \/ rpc = "cc_lock" /\ g_CompletedRequestQueue.lock = "host"

\* C11 as claimed: while the engine is Running neither thread ever waits for a
\* queue lock the other thread holds.
C11_AsClaimed == Phase = "Running" => (~HostWaits /\ ~ReactorWaits)

\* Number of places context c occurs in the sequence s.
Occ(s, c) == Cardinality({ i \in 1..Len(s) : s[i] = c })

\* The host thread is inside AddRequestToQueue(c) and has not pushed c yet.
HostSubmitting(c) == hpc \in { "arq_lock", "arq_push" } /\ c = Len(ctx)

\* Number of holders of context c: the two queues, the multi handle, the local
\* `context` of each thread, and the host thread while it submits c.
Owners(c) ==
    Occ(g_RequestQueue.q, c) + Truth(c \in g_Curl.handles)
        + Occ(g_CompletedRequestQueue.q, c)
        + Truth(rctx = c) + Truth(hctx = c) + Truth(HostSubmitting(c))

\* C12: every context that has not been deleted has exactly one holder (a
\* deleted one has none); the host thread holds no context that is in the
\* pending queue or the multi handle or in the reactor's hands, and the
\* reactor thread holds no context it has pushed on the completed queue.
C12_SingleOwner ==
    \A c \in Ctxs :
        /\ Owners(c) = (IF ctx[c].del = 0 THEN 1 ELSE 0)
        /\ hctx = c =>
              /\ c \notin Range(g_RequestQueue.q)
              /\ c \notin g_Curl.handles
              /\ rctx # c
        /\ c \in Range(pushOrder) => rctx # c

\* C12's case: the host thread is inside one context's OnCompleted() while the
\* reactor thread initialises a second one and a third is an active transfer.
C12_Witness ==
    \E a \in Ctxs : \E b \in Ctxs : \E c \in Ctxs :
        /\ InOnCompleted(a) /\ InInitCurl(b) /\ c \in InFlight
        /\ a # b /\ b # c /\ a # c

\* The steps that access a queue: Empty(), Push() or Pop().
HostAccessesRequestQueue ==
    \/ hpc = "idle" /\ hpc' = "fh_comp"
    \/ hpc = "arq_push" /\ hpc' # "arq_push"
HostAccessesCompletedQueue ==
    \/ hpc = "fh_comp" /\ hpc' # "fh_comp"
    \/ hpc = "fh_pop" /\ hpc' # "fh_pop"
ReactorAccessesRequestQueue == rpc = "apr_loop" /\ rpc' # "apr_loop"
ReactorAccessesCompletedQueue == rpc = "cc_push" /\ rpc' # "cc_push"

\* C13 as claimed: every Empty(), Push() and Pop() on either queue, the two
\* Empty() calls of FrameHook included, is made by a thread that holds the
\* queue's lock.
C13_AsClaimed ==
    [][ /\ HostAccessesRequestQueue => g_RequestQueue.lock = "host"
        /\ HostAccessesCompletedQueue => g_CompletedRequestQueue.lock = "host"
        /\ ReactorAccessesRequestQueue => g_RequestQueue.lock = "reactor"
        /\ ReactorAccessesCompletedQueue => g_CompletedRequestQueue.lock = "reactor"
      ]_vars

\* C14: once SDK_OnUnload has sent the stop wake, AsyncStopLoop calls uv_stop,
\* uv_run and EventLoop return (and only a loop that uv_stop has stopped
\* returns), the join completes and SDK_OnUnload returns,
\* whether or not transfers are still active; from the moment the stop wake is
\* sent no OnCompleted() is invoked any more, so a transfer that is still in
\* the multi handle then never has its callback.
C14_StopTerminates ==
    /\ (hpc = "un_join") ~> (rpc = "exited")
    /\ (hpc = "un_join") ~> (hpc = "stopped")
    /\ [][(rpc # "exited" /\ rpc' = "exited") => g_Loop.stop]_vars
    /\ [](Phase \in { "Stopping", "Stopped" } =>
             \A c \in g_Curl.handles : ctx[c].cb = 0)
    /\ [][(Phase \in { "Stopping", "Stopped" }) => (cbOrder' = cbOrder)]_vars

\* C14's case: SDK_OnUnload has returned while two transfers were still active
\* in the multi handle, neither with its callback invoked.
C14_Witness ==
    /\ hpc = "stopped"
    /\ Cardinality(InFlight) = 2
    /\ \A c \in InFlight : ctx[c].cb = 0

\* A step of the host thread inside AddRequestToQueue.
SubmitStep == hpc \in { "arq_lock", "arq_push", "arq_unlock" } /\ hpc' # hpc

\* C15: AddRequestToQueue sends no wake itself, and a wake is sent only by a
\* tick that read the pending queue as non-empty; yet as long as the engine is
\* Running and the host keeps calling FrameHook, a non-empty pending queue is
\* always drained to empty again, and a context leaves the pending queue only
\* by the Pop of AsyncPerformRequests that enters its InitCurl(): so every
\* context in the pending queue is popped and has InitCurl() called.
C15_NoMissedWakeup ==
    /\ (~Empty(g_RequestQueue)) ~> (Empty(g_RequestQueue) \/ Phase # "Running")
    /\ [][(g_RequestQueue'.q # g_RequestQueue.q /\ ~SubmitStep) =>
             /\ rpc = "apr_loop" /\ rpc' = "InitCurl"
             /\ g_RequestQueue.lock = "reactor"
             /\ g_RequestQueue'.q = Tail(g_RequestQueue.q)
             /\ rctx' = Head(g_RequestQueue.q)
             /\ initOrder' = Append(initOrder, Head(g_RequestQueue.q))]_vars
    /\ [][SubmitStep => g_AsyncPerformRequests' = g_AsyncPerformRequests]_vars
    /\ [][(g_AsyncPerformRequests' /\ ~g_AsyncPerformRequests) =>
             (hpc = "idle" /\ hpc' = "fh_comp")]_vars

\* C15's case: after an earlier admission run has ended, a context sits in the
\* pending queue with no wake pending, the reactor back in uv_run and the host
\* between two ticks.
C15_Witness ==
    /\ hpc = "idle" /\ frameHook
    /\ rpc = "uv_run"
    /\ ~g_AsyncPerformRequests
    /\ ~Empty(g_RequestQueue)
    /\ Len(initOrder) >= 1

\* C16: the host thread and the reactor thread never each wait for a lock the
\* other holds.  The host takes the pending queue's lock while it holds the
\* completed queue's (AddRequestToQueue called from OnCompleted()); the
\* reactor never holds one lock while it takes, or holds, the other.
C16_NoLockDeadlock ==
    /\ ~(HostWaits /\ ReactorWaits)
    /\ ~(g_RequestQueue.lock = "reactor" /\ g_CompletedRequestQueue.lock = "reactor")
    /\ rpc \in { "apr_lock", "cc_lock" } =>
          (g_RequestQueue.lock # "reactor" /\ g_CompletedRequestQueue.lock # "reactor")

\* C16's case: inside OnCompleted(), holding the completed queue's lock, the
\* host waits in AddRequestToQueue for the pending queue's lock, which the
\* reactor holds during an admission run.
C16_Witness ==
    /\ hpc = "arq_lock" /\ hret = "OnCompleted"
    /\ g_CompletedRequestQueue.lock = "host"
    /\ g_RequestQueue.lock = "reactor"
    /\ rpc \in { "apr_loop", "InitCurl", "apr_delete" }

\* The reactor thread is inside CheckCompletedRequests.
InCheckCompleted == rpc \in { "cc_read", "cc_lock", "cc_push", "cc_unlock" }

\* The contexts whose InitCurl() succeeded: those added to the multi handle.
Admitted == { c \in Ctxs : ctx[c].init = "ok" }

\* C17: whenever the reactor is not inside CheckCompletedRequests, so after
\* every PerformRequests and CurlSocketActivity has returned, the multi handle
\* has no finished transfer left to report, and every admitted context is
\* either still an unfinished transfer of the multi handle or has been removed
\* from it and pushed once on the completed queue; no context is ever pushed
\* twice or pushed while still in the multi handle, and every OnCompleted() is
\* entered by a step of the host thread's FrameHook.
C17_FinishedAllPushed ==
    /\ [](~InCheckCompleted =>
             /\ g_Curl.msgs = << >>
             /\ \A c \in Admitted : Truth(c \in g_Curl.handles) + Occ(pushOrder, c) = 1)
    /\ [](\A c \in Ctxs :
             /\ Occ(pushOrder, c) <= 1
             /\ c \in Range(pushOrder) => (c \in Admitted /\ c \notin g_Curl.handles))
    /\ [][(cbOrder' # cbOrder) =>
             (hpc = "fh_pop" /\ hpc' = "OnCompleted" /\ rpc' = rpc /\ rctx' = rctx)]_vars

\* C17's case: a handler has returned after two transfers finished; both are
\* out of the multi handle and on the completed queue, in the order cURL
\* reported them, and a third transfer is still active.
C17_Witness ==
    /\ rpc = "uv_run"
    /\ Len(pushOrder) = 2
    /\ g_CompletedRequestQueue.q = pushOrder
    /\ Cardinality(InFlight) = 1
    /\ g_Curl.msgs = << >>

WatchIds == { w \in Contexts : watch[w] # NoContext }

\* The CurlContext objects of socket s that are alive.
LiveWatches(s) == { w \in WatchIds : watch[w].socket = s }

\* C18: a socket has at most one live CurlContext, the one cURL holds as its
\* `socketdata`, and it is polling; a CurlContext is created only by a
\* CURL_POLL_IN / OUT / INOUT call for a socket that has none; such a call for
\* a socket that has one keeps it and changes nothing but its poll events; a
\* CurlContext is destroyed only by a CURL_POLL_REMOVE call for its socket; and
\* a CURL_POLL_REMOVE call for a socket without a CurlContext changes nothing.
C18_OneWatchPerSocket ==
    /\ [](\A s \in Sockets :
             /\ Cardinality(LiveWatches(s)) <= 1
             /\ LiveWatches(s) = (IF socketdata[s] = 0 THEN {} ELSE { socketdata[s] })
             /\ \A w \in LiveWatches(s) : watch[w].state = "polling")
    /\ [][\A w \in Contexts : (watch[w] = NoContext /\ watch'[w] # NoContext) =>
             /\ lastCall'.action \in PollActions
             /\ lastCall'.socketdata = 0
             /\ LiveWatches(lastCall'.socket) = {}
             /\ watch' = [watch EXCEPT ![w] = [socket |-> lastCall'.socket,
                                               events |-> Events(lastCall'.action),
                                               state |-> "polling"]]
             /\ socketdata' = [socketdata EXCEPT ![lastCall'.socket] = w]]_vars
    /\ [][(lastCall'.action \in PollActions /\ lastCall'.socketdata # 0) =>
             /\ socketdata' = socketdata
             /\ watch' = [watch EXCEPT
                             ![lastCall'.socketdata].events = Events(lastCall'.action)]]_vars
    /\ [][\A w \in Contexts : (watch[w] # NoContext /\ watch'[w] = NoContext) =>
             /\ lastCall'.action = "CURL_POLL_REMOVE"
             /\ lastCall'.socket = watch[w].socket
             /\ lastCall'.socketdata = w
             /\ socketdata'[watch[w].socket] = 0
             /\ watch' = [watch EXCEPT ![w] = NoContext]]_vars
    /\ [][(lastCall'.action = "CURL_POLL_REMOVE" /\ lastCall'.socketdata = 0) =>
             (socketdata' = socketdata /\ watch' = watch)]_vars

\* C18's case: socket 2's CurlContext, the first one created, has been
\* destroyed by a remove request and its address is free; socket 1's, created
\* after it, is still polling, for reading and writing; and a second remove
\* request has just come for socket 2, which has no CurlContext any more.
C18_Witness ==
    /\ watch[1] = NoContext
    /\ watch[2] = [socket |-> 1, events |-> { "UV_READABLE", "UV_WRITABLE" },
                   state |-> "polling"]
    /\ watch[3] = NoContext
    /\ socketdata = [s \in Sockets |-> IF s = 1 THEN 2 ELSE 0]
    /\ lastCall = [socket |-> 2, action |-> "CURL_POLL_REMOVE", socketdata |-> 0]

\* C19: FrameHook never calls Pop() on an empty completed queue.  When it has
\* read the queue as non-empty and stands at Lock(), the queue is non-empty or
\* the reactor is inside its Push with the lock held; at the Pop the queue is
\* non-empty.
C19_PopNeverEmpty ==
    /\ hpc = "fh_pop" => ~Empty(g_CompletedRequestQueue)
    /\ hpc = "fh_lock" => (~Empty(g_CompletedRequestQueue) \/ rpc = "cc_push")
    /\ hpc \in { "fh_pop", "OnCompleted", "fh_delete", "fh_unlock" } =>
          g_CompletedRequestQueue.lock = "host"

\* C19's case: the unlocked Empty() raced with the reactor's Push and answered
\* non-empty; the host stands at Lock() while the queue is still empty and the
\* reactor, holding the lock, is about to push.
C19_Witness ==
    /\ hpc = "fh_lock"
    /\ rpc = "cc_push"
    /\ Empty(g_CompletedRequestQueue)
    /\ g_CompletedRequestQueue.lock = "reactor"

\* InitCurl() failures among the contexts popped by the current run of
\* AsyncPerformRequests.
FailedInRun ==
    Cardinality({ i \in (Len(initOrder) - popped + 1)..Len(initOrder) :
                     ctx[initOrder[i]].init = "fail" })

\* C20: in one run of AsyncPerformRequests the contexts popped are the ones
\* added to the multi handle plus the ones whose InitCurl() failed; the run
\* ends only with the pending queue empty or MAX_PROCESS contexts added; so
\* when the queue held at least MAX_PROCESS contexts more than the failures
\* met, the run pops MAX_PROCESS plus that number of failures.
C20_FailuresNotCounted ==
    /\ [](rpc = "apr_loop" => popped = count + FailedInRun)
    /\ [](count <= MAX_PROCESS)
    /\ [][APR_ExitStep =>
             /\ Empty(g_RequestQueue) \/ count = MAX_PROCESS
             /\ (popped + Len(g_RequestQueue.q) >= MAX_PROCESS + FailedInRun) =>
                   (count = MAX_PROCESS /\ popped = MAX_PROCESS + FailedInRun)
             /\ (popped + Len(g_RequestQueue.q) < MAX_PROCESS + FailedInRun) =>
                   (Empty(g_RequestQueue) /\ count = popped - FailedInRun)]_vars

\* C20's case: a run is about to end having popped 12 contexts: 2 failed
\* InitCurl() and 10 were added to the multi handle.
C20_Witness ==
    /\ rpc = "apr_loop"
    /\ popped = MAX_PROCESS + 2
    /\ FailedInRun = 2
    /\ count = MAX_PROCESS
    /\ Cardinality(g_Curl.handles) = MAX_PROCESS

====
